---- MODULE Spec2Model ----
(***************************************************************************)
(* Model of the documentation site's in-house subsystems                   *)
(* (src/src/index.ts): SimpleDatabase, the in-memory record store,         *)
(* SimpleTemplateEngine, the three-pass template renderer, SimpleServer,   *)
(* the exact-match dispatcher with its middleware chain, and               *)
(* DocumentationService, which seeds the store, registers the routes and   *)
(* starts the dispatcher.                                                  *)
(*                                                                         *)
(* Encoding of JavaScript values in the store: every value is an integer.  *)
(* Undefined (-1) stands for the JS value undefined, which is also what a  *)
(* property read of a missing field yields.  Identifiers are the ordinal   *)
(* of the randomUUID() call that produced them, timestamps are clock       *)
(* readings, and the caller-supplied value 1 is at once an id and a time.   *)
(*                                                                         *)
(* Encoding of text in the renderer: a string is a sequence of tokens, one *)
(* token for each substring the renderer's regular expressions tell apart  *)
(* (a {{name}} token, an if/endif/for/endfor tag, a {{item.prop}} token)   *)
(* and one for any other piece of text.                                    *)
(***************************************************************************)
EXTENDS Integers, Sequences, FiniteSets, TLC

VARIABLES
  data,       \* SimpleDatabase.data: table name -> insertion-ordered Map of records
  now,        \* the clock value the latest new Date() read
  uuidCount,  \* how many identifiers randomUUID() has produced
  issued,     \* history: the ids insert has returned, per table name
  call,       \* the latest store call: its arguments and what it returned
  template,   \* render's template argument
  ctx,        \* render's data argument
  result,     \* render's text after each pass, and whether it raised
  pc,         \* render: "ready" before the call, "done" after ("off": no call)
  routes,     \* SimpleServer.routes: method -> (path -> handler)
  middleware, \* SimpleServer.middleware: the stage functions, in use() order
  listening,  \* SimpleServer.server is listening: requests reach handleRequest
  reqs,       \* the requests handleRequest was called for, with their closures
  latest,     \* history: the handler last passed to get/post for a method and path
  svc,        \* DocumentationService: where its start()/initialize() calls stand
  tasks       \* handlers that read a record, await, and update it: their locals

dbVars == <<data, now, uuidCount, issued, call>>
tplVars == <<template, ctx, result, pc>>
srvVars == <<routes, middleware, listening, reqs, latest, svc, tasks>>
vars == <<data, now, uuidCount, issued, call, template, ctx, result, pc,
          routes, middleware, listening, reqs, latest, svc, tasks>>

(***************************************************************************)
(* Bounds                                                                  *)
(***************************************************************************)
MaxIds == 3
MaxFieldIds == 2
MaxClock == 1
MaxLen == 4
MaxLoopLen == 5
MaxStages == 2

(***************************************************************************)
(* Values and records of the store                                         *)
(***************************************************************************)
Undefined == 0 - 1
Tables == {"A", "B"}
Ids == 1..MaxIds

EmptyRec == [k \in {} |-> 0]
NullRec == [k \in {"null"} |-> 0]

\* record[key] in JavaScript: undefined when the record has no such field
Get(record, key) == IF key \in DOMAIN record THEN record[key] ELSE Undefined

\* { ...a, ...b }: the fields of both, b's value winning on a shared name
Spread(a, b) ==
  [k \in (DOMAIN a) \cup (DOMAIN b) |-> IF k \in DOMAIN b THEN b[k] ELSE a[k]]

(***************************************************************************)
(* Map<string, any>: an insertion-ordered sequence of <<key, value>>       *)
(***************************************************************************)
MapHas(table, id) == \E i \in 1..Len(table) : table[i][1] = id

MapGet(table, id) ==
  IF MapHas(table, id)
  THEN table[CHOOSE i \in 1..Len(table) : table[i][1] = id][2]
  ELSE NullRec

\* Map.set keeps the position of a key that is already present
MapSet(table, id, rec) ==
  IF MapHas(table, id)
  THEN [i \in 1..Len(table) |-> IF table[i][1] = id THEN <<id, rec>> ELSE table[i]]
  ELSE Append(table, <<id, rec>>)

MapDelete(table, id) == SelectSeq(table, LAMBDA e : e[1] # id)

MapValues(table) == [i \in 1..Len(table) |-> table[i][2]]

(***************************************************************************)
(* SimpleDatabase: pure effect of each method on the field `data`          *)
(***************************************************************************)
\* variant: an existing table is kept as it is
createTableIfAbsent(d, tableName) ==
  [n \in (DOMAIN d) \cup {tableName} |-> IF n \in DOMAIN d THEN d[n] ELSE <<>>]

createTable(d, tableName) ==
  [n \in (DOMAIN d) \cup {tableName} |-> IF n = tableName THEN <<>> ELSE d[n]]

\* variant: { id, createdAt, updatedAt, ...record }, the caller's fields winning
recordWithIdCallerWins(record, id, t1, t2) ==
  Spread([k \in {"id", "createdAt", "updatedAt"} |->
            IF k = "id" THEN id ELSE IF k = "createdAt" THEN t1 ELSE t2], record)

\* the record insert builds: caller's fields, then id and the two clock reads
recordWithId(record, id, t1, t2) ==
  Spread(record, [k \in {"id", "createdAt", "updatedAt"} |->
                    IF k = "id" THEN id ELSE IF k = "createdAt" THEN t1 ELSE t2])

\* variant: the missing table is not created
insertTargetNoCreate(d, tableName) == d

\* the table insert works on: created when this.data.get(tableName) is absent
insertTarget(d, tableName) ==
  IF tableName \notin DOMAIN d THEN createTable(d, tableName) ELSE d

\* id is the value of randomUUID(); t1, t2 the two successive new Date() reads.
\* this.data.get(tableName)! is dereferenced: a table still absent there raises
insert(d, tableName, record, id, t1, t2) ==
  LET d1 == insertTarget(d, tableName)
      rec == recordWithId(record, id, t1, t2)
  IN IF tableName \notin DOMAIN d1
     THEN [data |-> d1, ret |-> NullRec, raised |-> TRUE]
     ELSE [data |-> [d1 EXCEPT ![tableName] = MapSet(d1[tableName], id, rec)],
           ret |-> rec, raised |-> FALSE]

\* variant: some() in place of every()
matchesSome(record, conditions) ==
  \E key \in DOMAIN conditions : Get(record, key) = conditions[key]

\* record => Object.entries(conditions).every(([key, value]) => record[key] === value)
matches(record, conditions) ==
  \A key \in DOMAIN conditions : Get(record, key) = conditions[key]

find(d, tableName, hasConditions, conditions) ==
  IF tableName \notin DOMAIN d THEN <<>>
  ELSE LET records == MapValues(d[tableName])
       IN IF ~hasConditions THEN records
          ELSE SelectSeq(records, LAMBDA record : matches(record, conditions))

findById(d, tableName, id) ==
  IF tableName \notin DOMAIN d THEN NullRec ELSE MapGet(d[tableName], id)

\* variant: { ...record, updatedAt: new Date(), ...updates }
updatedRecordCallerWins(record, updates, t) ==
  Spread(Spread(record, [k \in {"updatedAt"} |-> t]), updates)

updatedRecord(record, updates, t) ==
  Spread(Spread(record, updates), [k \in {"updatedAt"} |-> t])

\* variant: a missing record is created from the updates
upsert(d, tableName, id, updates, t) ==
  IF tableName \notin DOMAIN d THEN [data |-> d, ret |-> FALSE]
  ELSE [data |-> [d EXCEPT ![tableName] =
                    MapSet(d[tableName], id,
                           Spread(Spread(IF MapHas(d[tableName], id)
                                         THEN MapGet(d[tableName], id) ELSE EmptyRec,
                                         updates), [k \in {"updatedAt"} |-> t]))],
        ret |-> MapHas(d[tableName], id)]

\* variant: update reports success without storing the record
updateNoWrite(d, tableName, id, updates, t) ==
  [data |-> d, ret |-> tableName \in DOMAIN d /\ MapHas(d[tableName], id)]

update(d, tableName, id, updates, t) ==
  IF tableName \notin DOMAIN d THEN [data |-> d, ret |-> FALSE]
  ELSE IF ~MapHas(d[tableName], id) THEN [data |-> d, ret |-> FALSE]
  ELSE [data |-> [d EXCEPT ![tableName] =
                    MapSet(d[tableName], id, updatedRecord(MapGet(d[tableName], id), updates, t))],
        ret |-> TRUE]

\* variant: table.clear() in place of table.delete(id)
deleteClears(d, tableName, id) ==
  IF tableName \notin DOMAIN d THEN [data |-> d, ret |-> FALSE]
  ELSE [data |-> [d EXCEPT ![tableName] =
                    IF MapHas(d[tableName], id) THEN <<>> ELSE d[tableName]],
        ret |-> MapHas(d[tableName], id)]

delete(d, tableName, id) ==
  IF tableName \notin DOMAIN d THEN [data |-> d, ret |-> FALSE]
  ELSE [data |-> [d EXCEPT ![tableName] = MapDelete(d[tableName], id)],
        ret |-> MapHas(d[tableName], id)]

(***************************************************************************)
(* Inputs of the store operations                                          *)
(***************************************************************************)
\* a record whose fields in D all hold the value 1
Ones(D) == [k \in D |-> 1]

InsertInputs == {Ones({}), Ones({"f", "id", "createdAt", "updatedAt"})}
UpdateInputs == {Ones({"f"}), Ones({"updatedAt"})}
ConditionInputs ==
  {Ones({}), Ones({"f"}), Ones({"f", "id"}), [k \in {"f"} |-> Undefined]}
\* single-field updates over every field name a record can carry
FieldUpdateInputs ==
  {Ones({"f"}), Ones({"id"}), Ones({"createdAt"}), Ones({"updatedAt"})}

\* what the last call was, what it was given and what it returned; created
\* tells that insert took its table-creating branch
Call(op, tableName, id, fields, hasConditions, retBool, retRec, retList, raised, created) ==
  [op |-> op, table |-> tableName, id |-> id, fields |-> fields,
   hasConditions |-> hasConditions, retBool |-> retBool, retRec |-> retRec,
   retList |-> retList, raised |-> raised, created |-> created]

NoCall == Call("none", "A", 0, EmptyRec, FALSE, FALSE, NullRec, <<>>, FALSE, FALSE)

NoResult == [vars |-> <<>>, ifs |-> <<>>, out |-> <<>>, raised |-> FALSE]

(***************************************************************************)
(* SimpleServer and DocumentationService after construction.  A URL or a   *)
(* path is a sequence of tokens: "/", "?", "=" and the pieces of text      *)
(* between them.  The empty string "" and the empty sequence stand for a   *)
(* missing method and a missing URL: undefined and '' are both falsy.      *)
(***************************************************************************)
ReqIds == {1, 2}
SvcCalls == {1, 2}

\* a request handleRequest has not been called for
NoReq ==
  [st |-> "none", rawMethod |-> "", rawUrl |-> <<>>, method |-> "", path |-> <<>>,
   middlewareIndex |-> 0, trace |-> <<>>, calls |-> [i \in 1..MaxStages |-> 0],
   resp |-> <<>>, pend |-> <<>>]

NoRoutes == [m \in {} |-> [q \in {} |-> ""]]

\* the handlers that overlap on the store, and the locals of one that has
\* not run yet: the id it asks for, the record it read, the value it wrote,
\* what update returned and the how-manieth update it was
TaskIds == {1, 2, 3}
NoTask == [st |-> "idle", id |-> 0, seen |-> NullRec, value |-> 0, ok |-> FALSE, turn |-> 0]

SrvIdle ==
  /\ routes = NoRoutes
  /\ middleware = <<>>
  /\ listening = FALSE
  /\ reqs = [r \in ReqIds |-> NoReq]
  /\ latest = [k \in {} |-> [first |-> "", handler |-> ""]]
  /\ svc = [c \in SvcCalls |-> [kind |-> "none", at |-> 0]]
  /\ tasks = [c \in TaskIds |-> NoTask]

TplIdle ==
  /\ template = <<>> /\ ctx = EmptyRec /\ result = NoResult /\ pc = "off"

\* the state after construction, with the clock standing at clockStart
InitDB(clockStart) ==
  /\ data = [n \in {} |-> <<>>]
  /\ now = clockStart
  /\ uuidCount = 0
  /\ issued = [n \in Tables |-> {}]
  /\ call = NoCall
  /\ TplIdle
  /\ SrvIdle

(***************************************************************************)
(* Store actions                                                           *)
(***************************************************************************)
CreateTable(tableName) ==
  /\ data' = createTable(data, tableName)
  /\ call' = Call("createTable", tableName, 0, EmptyRec, FALSE, FALSE, NullRec, <<>>, FALSE, FALSE)
  /\ UNCHANGED <<now, uuidCount, issued, tplVars, srvVars>>

\* randomUUID() yields an identifier never produced before.  Each new Date()
\* reads a clock that may have advanced since the previous read (d1 before
\* the first read of the object literal, d2 between its two reads).
\* issued[tableName] collects the ids insert has returned for that table name.
Insert(tableName, record) ==
  /\ uuidCount < MaxIds
  /\ \E d1 \in {0, 1}, d2 \in {0, 1} :
       /\ now + d1 + d2 <= MaxClock
       /\ LET id == uuidCount + 1
              r == insert(data, tableName, record, id, now + d1, now + d1 + d2)
          IN /\ data' = r.data
             /\ now' = now + d1 + d2
             /\ uuidCount' = id
             /\ issued' = IF r.raised THEN issued
                          ELSE [issued EXCEPT ![tableName] = @ \cup {r.ret["id"]}]
             /\ call' = Call("insert", tableName, 0, record, FALSE, FALSE, r.ret, <<>>,
                             r.raised, tableName \notin DOMAIN data)
  /\ UNCHANGED <<tplVars, srvVars>>

Find(tableName, hasConditions, conditions) ==
  /\ call' = Call("find", tableName, 0, conditions, hasConditions, FALSE, NullRec,
                  find(data, tableName, hasConditions, conditions), FALSE, FALSE)
  /\ UNCHANGED <<data, now, uuidCount, issued, tplVars, srvVars>>

FindById(tableName, id) ==
  /\ call' = Call("findById", tableName, id, EmptyRec, FALSE, FALSE,
                  findById(data, tableName, id), <<>>, FALSE, FALSE)
  /\ UNCHANGED <<data, now, uuidCount, issued, tplVars, srvVars>>

\* the clock may have advanced by d since it was last read
Update(tableName, id, updates) ==
  /\ \E d \in {0, 1} :
       /\ now + d <= MaxClock
       /\ LET r == update(data, tableName, id, updates, now + d)
          IN /\ data' = r.data
             /\ now' = now + d
             /\ call' = Call("update", tableName, id, updates, FALSE, r.ret, NullRec,
                             <<>>, FALSE, FALSE)
  /\ UNCHANGED <<uuidCount, issued, tplVars, srvVars>>

Delete(tableName, id) ==
  /\ LET r == delete(data, tableName, id)
     IN /\ data' = r.data
        /\ call' = Call("delete", tableName, id, EmptyRec, FALSE, r.ret, NullRec, <<>>, FALSE, FALSE)
  /\ UNCHANGED <<now, uuidCount, issued, tplVars, srvVars>>

NextDB ==
  \/ \E t \in Tables : CreateTable(t)
  \/ \E t \in Tables, r \in InsertInputs : Insert(t, r)
  \/ \E t \in Tables : Find(t, FALSE, EmptyRec)
  \/ \E t \in Tables, c \in ConditionInputs : Find(t, TRUE, c)
  \/ \E t \in Tables, k \in Ids : FindById(t, k)
  \/ \E t \in Tables, k \in Ids, u \in UpdateInputs : Update(t, k, u)
  \/ \E t \in Tables, k \in Ids : Delete(t, k)

\* The store under every operation, on two tables.  All calls of a run fall
\* within one reading of the clock (it stands at the last modelled value):
\* no operation reads a stored timestamp, so the structure of the store does
\* not depend on the readings.  SpecFields lets the clock run.
Spec == InitDB(MaxClock) /\ [][NextDB]_vars

\* one table of at most MaxFieldIds records, a running clock, and updates
\* that name each field a record can carry
NextFields ==
  \/ \E r \in InsertInputs : uuidCount < MaxFieldIds /\ Insert("A", r)
  \/ \E k \in 1..MaxFieldIds, u \in FieldUpdateInputs : Update("A", k, u)
  \/ \E k \in 1..MaxFieldIds : FindById("A", k)

SpecFields == InitDB(0) /\ [][NextFields]_vars

(***************************************************************************)
(* Handlers that overlap on a record: each reads it with findById, awaits, *)
(* and then calls update with a value computed from what it read           *)
(***************************************************************************)
\* the value the handler c computes from the record it read
computed(seen, c) == Get(seen, "f") + c

\* up to the await: the read
TaskRead(c, id) ==
  /\ tasks[c].st = "idle"
  /\ findById(data, "A", id) # NullRec
  /\ tasks' = [tasks EXCEPT ![c] = [@ EXCEPT !.st = "read", !.id = id,
                                              !.seen = findById(data, "A", id)]]
  /\ UNCHANGED <<routes, middleware, listening, reqs, latest, svc, dbVars, tplVars>>

\* after the await: the update, at a clock that may have advanced by d
TaskUpdate(c) ==
  /\ tasks[c].st = "read"
  /\ \E d \in {0, 1} :
       /\ now + d <= MaxClock
       /\ LET value == computed(tasks[c].seen, c)
              r == update(data, "A", tasks[c].id, [k \in {"f"} |-> value], now + d)
          IN /\ data' = r.data
             /\ now' = now + d
             /\ tasks' = [tasks EXCEPT ![c] =
                   [@ EXCEPT !.st = "done", !.value = value, !.ok = r.ret,
                             !.turn = 1 + Cardinality({o \in TaskIds : tasks[o].st = "done"})]]
  /\ UNCHANGED <<routes, middleware, listening, reqs, latest, svc,
                 uuidCount, issued, call, tplVars>>

\* at most MaxFieldIds records with a field f, and three handlers
NextTasks ==
  \/ \E r \in InsertInputs : uuidCount < MaxFieldIds /\ "f" \in DOMAIN r /\ Insert("A", r)
  \/ \E c \in TaskIds, k \in 1..MaxFieldIds : TaskRead(c, k)
  \/ \E c \in TaskIds : TaskUpdate(c)

SpecTasks == InitDB(0) /\ [][NextTasks]_vars

(***************************************************************************)
(* JavaScript values of a render context: [t |-> type, v |-> value]        *)
(***************************************************************************)
Txt(c) == [k |-> "txt", a |-> c, b |-> ""]
VarTok(name) == [k |-> "var", a |-> name, b |-> ""]
IfTag(name) == [k |-> "if", a |-> name, b |-> ""]
EndIfTag == [k |-> "endif", a |-> "", b |-> ""]
ForTag(itemVar, arrayVar) == [k |-> "for", a |-> itemVar, b |-> arrayVar]
EndForTag == [k |-> "endfor", a |-> "", b |-> ""]
DotTok(itemVar, prop) == [k |-> "dot", a |-> itemVar, b |-> prop]

Str(tokens) == [t |-> "string", v |-> tokens]
Num(n) == [t |-> "number", v |-> n]
Bool(b) == [t |-> "boolean", v |-> b]
Arr(items) == [t |-> "array", v |-> items]

\* ToBoolean: what `value || ''` and `if (value)` test
Truthy(value) ==
  CASE value.t = "string" -> value.v # <<>>
    [] value.t = "number" -> value.v # 0
    [] value.t = "boolean" -> value.v
    [] OTHER -> TRUE

RECURSIVE JoinObjects(_)
\* Array.prototype.toString of an array of n objects
JoinObjects(n) ==
  IF n = 0 THEN <<>>
  ELSE IF n = 1 THEN <<Txt("[object Object]")>>
  ELSE <<Txt("[object Object]"), Txt(",")>> \o JoinObjects(n - 1)

\* the decimal numerals of the numbers 0..9
Digits == <<"0", "1", "2", "3", "4", "5", "6", "7", "8", "9">>

\* ToString: how String.prototype.replace turns a callback's result into text
ToStr(value) ==
  CASE value.t = "string" -> value.v
    [] value.t = "number" -> <<Txt(Digits[value.v + 1])>>
    [] value.t = "boolean" -> <<Txt(IF value.v THEN "true" ELSE "false")>>
    [] OTHER -> JoinObjects(Len(value.v))

(***************************************************************************)
(* SimpleTemplateEngine.render                                             *)
(***************************************************************************)
HasKind(text, kind) == \E i \in 1..Len(text) : text[i].k = kind

FirstOf(text, kind) ==
  CHOOSE i \in 1..Len(text) :
    text[i].k = kind /\ \A j \in 1..(i - 1) : text[j].k # kind

\* String.prototype.replace(regex, '') without the g flag: the first match goes
RemoveFirst(text, kind) ==
  IF HasKind(text, kind)
  THEN LET i == FirstOf(text, kind)
       IN SubSeq(text, 1, i - 1) \o SubSeq(text, i + 1, Len(text))
  ELSE text

\* the callback of the variable pass: data[key] || ''
varReplacement(d, key) ==
  IF key \in DOMAIN d /\ Truthy(d[key]) THEN ToStr(d[key]) ELSE <<>>

RECURSIVE replaceVars(_, _)
\* result.replace(/\{\{(\w+)\}\}/g, ...)
replaceVars(text, d) ==
  IF text = <<>> THEN <<>>
  ELSE (IF Head(text).k = "var" THEN varReplacement(d, Head(text).a)
        ELSE <<Head(text)>>) \o replaceVars(Tail(text), d)

\* variant: [\s\S]* in place of [\s\S]*?, the match running to the last endif
greedyEnd(text, kind) ==
  CHOOSE i \in 1..Len(text) :
    text[i].k = kind /\ \A j \in (i + 1)..Len(text) : text[j].k # kind

\* where a match that opens at text[1] ends: [\s\S]*? stops at the first
\* closing tag
lazyEnd(text, kind) == FirstOf(Tail(text), kind) + 1

\* the callback of the conditional pass
ifReplacement(match, d) ==
  LET condition == match[1].a
  IN IF condition \in DOMAIN d /\ Truthy(d[condition])
     THEN RemoveFirst(RemoveFirst(match, "if"), "endif")
     ELSE <<>>

RECURSIVE replaceIfs(_, _)
\* result.replace(/\{%\s*if\s+(\w+)\s*%\}[\s\S]*?\{%\s*endif\s*%\}/g, ...): the
\* scan takes the leftmost match, replaces it and goes on after its end
replaceIfs(text, d) ==
  IF text = <<>> THEN <<>>
  ELSE IF Head(text).k = "if" /\ HasKind(Tail(text), "endif")
  THEN LET e == lazyEnd(text, "endif")
       IN ifReplacement(SubSeq(text, 1, e), d)
            \o replaceIfs(SubSeq(text, e + 1, Len(text)), d)
  ELSE <<Head(text)>> \o replaceIfs(Tail(text), d)

\* the callback of the inner replace of the loop pass: item[prop] || ''
itemReplacement(item, prop) ==
  IF prop \in DOMAIN item /\ Truthy(item[prop]) THEN ToStr(item[prop]) ELSE <<>>

RECURSIVE replaceItem(_, _, _)
\* itemContent.replace(new RegExp(`\\{\\{${itemVar}\\.(\\w+)\\}\\}`, 'g'), ...)
replaceItem(content, itemVar, item) ==
  IF content = <<>> THEN <<>>
  ELSE (IF Head(content).k = "dot" /\ Head(content).a = itemVar
        THEN itemReplacement(item, Head(content).b)
        ELSE <<Head(content)>>) \o replaceItem(Tail(content), itemVar, item)

\* data[arrayVar] || []
loopArray(d, arrayVar) ==
  IF arrayVar \in DOMAIN d /\ Truthy(d[arrayVar]) THEN d[arrayVar] ELSE Arr(<<>>)

RECURSIVE joinMap(_, _, _)
\* array.map(item => ...).join('')
joinMap(items, content, itemVar) ==
  IF items = <<>> THEN <<>>
  ELSE replaceItem(content, itemVar, Head(items)) \o joinMap(Tail(items), content, itemVar)

RECURSIVE replaceFors(_, _)
\* result.replace(/\{%\s*for\s+(\w+)\s+in\s+(\w+)\s*%\}([\s\S]*?)\{%\s*endfor\s*%\}/g, ...);
\* a truthy value that is no array has no map method: TypeError
replaceFors(text, d) ==
  IF text = <<>> THEN [out |-> <<>>, raised |-> FALSE]
  ELSE IF Head(text).k = "for" /\ HasKind(Tail(text), "endfor")
  THEN LET e == lazyEnd(text, "endfor")
           content == SubSeq(text, 2, e - 1)
           array == loopArray(d, Head(text).b)
           rest == replaceFors(SubSeq(text, e + 1, Len(text)), d)
       IN IF array.t # "array" \/ rest.raised
          THEN [out |-> <<>>, raised |-> TRUE]
          ELSE [out |-> joinMap(array.v, content, Head(text).a) \o rest.out,
                raised |-> FALSE]
  ELSE LET rest == replaceFors(Tail(text), d)
       IN IF rest.raised THEN rest
          ELSE [out |-> <<Head(text)>> \o rest.out, raised |-> FALSE]

\* variant: the loop pass runs first, its copies then going through the
\* variable pass and the conditional pass
renderLoopsFirst(tpl, d) ==
  LET afterFors == replaceFors(tpl, d)
      afterVars == replaceVars(afterFors.out, d)
      afterIfs == replaceIfs(afterVars, d)
  IN [vars |-> afterVars, ifs |-> afterIfs, out |-> afterIfs,
      raised |-> afterFors.raised]

\* the three passes in order, each over the whole text the one before left
render(tpl, d) ==
  LET afterVars == replaceVars(tpl, d)
      afterIfs == replaceIfs(afterVars, d)
      afterFors == replaceFors(afterIfs, d)
  IN [vars |-> afterVars, ifs |-> afterIfs, out |-> afterFors.out,
      raised |-> afterFors.raised]

(***************************************************************************)
(* Inputs of render: templates over a token alphabet, contexts over names  *)
(***************************************************************************)
RECURSIVE SeqsUpTo(_, _)
SeqsUpTo(S, n) ==
  IF n = 0 THEN {<<>>}
  ELSE LET shorter == SeqsUpTo(S, n - 1)
       IN shorter \cup {Append(q, x) : q \in shorter, x \in S}

\* contexts that bind each name in dom(choices) to one of its values or leave it out
ContextsOver(choices) ==
  UNION {{c \in [D -> UNION {choices[n] : n \in D}] : \A n \in D : c[n] \in choices[n]} :
           D \in SUBSET DOMAIN choices}

CondAlphabet ==
  {Txt("X"), VarTok("a"), IfTag("a"), IfTag("b"), EndIfTag}

CondChoices ==
  [n \in {"a", "b"} |->
     IF n = "a" THEN {Str(<<>>), Str(<<Txt("s")>>), Num(0), Num(1), Bool(FALSE), Bool(TRUE)}
     ELSE {Bool(FALSE), Arr(<<>>)}]

DbIdle ==
  /\ data = [n \in {} |-> <<>>] /\ now = 0 /\ uuidCount = 0
  /\ issued = [n \in Tables |-> {}] /\ call = NoCall

InitRender ==
  /\ template \in SeqsUpTo(CondAlphabet, MaxLen)
  /\ ctx \in ContextsOver(CondChoices)
  /\ result = NoResult
  /\ pc = "ready"
  /\ DbIdle
  /\ SrvIdle

Render ==
  /\ pc = "ready"
  /\ result' = render(template, ctx)
  /\ pc' = "done"
  /\ UNCHANGED <<template, ctx, dbVars, srvVars>>

\* render applied to templates of variables and conditionals
SpecRender == InitRender /\ [][Render]_vars

\* elements of a looped array: objects with a field n, or with none
ElemN(value) == [k \in {"n"} |-> value]
ElemOther == [k \in {"m"} |-> Num(1)]

LoopAlphabet ==
  {VarTok("n"), IfTag("n"), EndIfTag, ForTag("x", "items"), EndForTag, DotTok("x", "n")}

LoopChoices ==
  [name \in {"items", "n"} |->
     IF name = "items"
     THEN {Arr(<<>>), Arr(<<ElemN(Num(1)), ElemN(Num(2))>>),
           Arr(<<ElemN(Num(0)), ElemOther>>), Str(<<Txt("s")>>)}
     ELSE {Str(<<Txt("o")>>)}]

InitLoop ==
  /\ template \in SeqsUpTo(LoopAlphabet, MaxLoopLen)
  /\ ctx \in ContextsOver(LoopChoices)
  /\ result = NoResult
  /\ pc = "ready"
  /\ DbIdle
  /\ SrvIdle

\* render applied to templates of variables, conditionals and loops
SpecLoop == InitLoop /\ [][Render]_vars

\* templates of variables, conditionals and loops, and contexts whose string
\* value for a is plain text or the text of a tag or a token
TagAlphabet ==
  {Txt("X"), VarTok("a"), IfTag("b"), EndIfTag, ForTag("x", "items"), EndForTag}

TagChoices ==
  [name \in {"a", "b", "items"} |->
     CASE name = "a" -> {Str(<<Txt("s")>>),
                         Str(<<IfTag("b"), Txt("Y"), EndIfTag>>),
                         Str(<<ForTag("x", "items"), Txt("Y"), EndForTag>>),
                         Str(<<VarTok("b")>>),
                         Str(<<DotTok("x", "n")>>)}
       [] name = "b" -> {Bool(FALSE), Bool(TRUE)}
       [] name = "items" -> {Arr(<<>>), Arr(<<ElemN(Num(1)), ElemN(Num(2))>>)}]

InitTags ==
  /\ template \in SeqsUpTo(TagAlphabet, MaxLen)
  /\ ctx \in ContextsOver(TagChoices)
  /\ result = NoResult
  /\ pc = "ready"
  /\ DbIdle
  /\ SrvIdle

\* render applied to contexts whose values hold template syntax
SpecTags == InitTags /\ [][Render]_vars

(***************************************************************************)
(* SimpleServer                                                            *)
(***************************************************************************)
\* an entry of a request's trace: a middleware stage that ran (its number n
\* in the chain), the route handler h that was invoked, or the 404 writer;
\* by is the stage whose continuation call led to it (0: handleRequest
\* itself) and len the length of the chain when the request was routed
Event(ev, n, by, h, len) == [ev |-> ev, n |-> n, by |-> by, h |-> h, len |-> len]

\* res.writeHead(status, {'Content-Type': type}); res.end(body)
Resp(status, type, body) == [status |-> status, type |-> type, body |-> body]

\* text.split(sep)[0]: the tokens before the first sep
splitFirst(text, sep) ==
  IF \E i \in 1..Len(text) : text[i] = sep
  THEN SubSeq(text, 1, (CHOOSE i \in 1..Len(text) :
                          text[i] = sep /\ \A j \in 1..(i - 1) : text[j] # sep) - 1)
  ELSE text

\* variant: the handler first registered for a path is kept
registerKeepsFirst(rts, method, path, handler) ==
  LET old == IF method \in DOMAIN rts THEN rts[method] ELSE [q \in {} |-> ""]
  IN [m \in (DOMAIN rts) \cup {method} |->
        IF m = method
        THEN [q \in (DOMAIN old) \cup {path} |-> IF q \in DOMAIN old THEN old[q] ELSE handler]
        ELSE rts[m]]

\* get and post: the method's Map is created when missing, then set(path, handler)
register(rts, method, path, handler) ==
  LET old == IF method \in DOMAIN rts THEN rts[method] ELSE [q \in {} |-> ""]
  IN [m \in (DOMAIN rts) \cup {method} |->
        IF m = method
        THEN [q \in (DOMAIN old) \cup {path} |-> IF q = path THEN handler ELSE old[q]]
        ELSE rts[m]]

\* the history of a method and path: the handler first registered for it
\* and the handler registered last
registered(history, k, handler) ==
  [j \in (DOMAIN history) \cup {k} |->
     IF j # k THEN history[j]
     ELSE [first |-> IF k \in DOMAIN history THEN history[k].first ELSE handler,
           handler |-> handler]]

\* variant: the path is looked up under every method
lookupAnyMethod(rts, method, path) ==
  IF \E m \in DOMAIN rts : path \in DOMAIN rts[m]
  THEN [found |-> TRUE,
        handler |-> rts[CHOOSE m \in DOMAIN rts : path \in DOMAIN rts[m]][path]]
  ELSE [found |-> FALSE, handler |-> ""]

\* routeRequest: this.routes.get(method), then methodRoutes.get(path)
lookup(rts, method, path) ==
  IF method \in DOMAIN rts /\ path \in DOMAIN rts[method]
  THEN [found |-> TRUE, handler |-> rts[method][path]]
  ELSE [found |-> FALSE, handler |-> ""]

\* variant: the whole URL is the path
requestPathWhole(rawUrl) == IF rawUrl = <<>> THEN <<"/">> ELSE rawUrl

\* const url = req.url || '/'; const path = url.split('?')[0]
requestPath(rawUrl) == splitFirst(IF rawUrl = <<>> THEN <<"/">> ELSE rawUrl, "?")

\* const method = req.method || 'GET'
requestMethod(rawMethod) == IF rawMethod = "" THEN "GET" ELSE rawMethod

\* how often a middleware function invokes the continuation it is given for
\* the request req: "guard" lets through only requests without a query
invocations(fn, req) ==
  CASE fn = "guard" -> IF \E i \in 1..Len(req.rawUrl) : req.rawUrl[i] = "?" THEN 0 ELSE 1
    [] fn = "pass" -> 1
    [] fn = "twice" -> 2

\* variant: a call advances the index by two, as two requests sharing one
\* index would
nextSkipping(req, chainLength, by) ==
  IF req.middlewareIndex < chainLength
  THEN [req |-> [req EXCEPT !.middlewareIndex = @ + 2,
                            !.trace = Append(@, Event("stage", req.middlewareIndex + 1, by, "", 0))],
        route |-> FALSE]
  ELSE [req |-> req, route |-> TRUE]

\* variant: the stages are taken from the end of the chain
nextFromEnd(req, chainLength, by) ==
  IF req.middlewareIndex < chainLength
  THEN [req |-> [req EXCEPT !.middlewareIndex = @ + 1,
                            !.trace = Append(@, Event("stage", chainLength - req.middlewareIndex, by, "", 0))],
        route |-> FALSE]
  ELSE [req |-> req, route |-> TRUE]

\* variant: the request is routed as soon as its stage has been started
nextThenRoute(req, chainLength, by) ==
  IF req.middlewareIndex < chainLength
  THEN [req |-> [req EXCEPT !.middlewareIndex = @ + 1,
                            !.trace = Append(@, Event("stage", req.middlewareIndex + 1, by, "", 0))],
        route |-> TRUE]
  ELSE [req |-> req, route |-> TRUE]

\* the closure next of handleRequest: starts middleware[middlewareIndex++], or
\* routes the request once the index has reached the length of the chain
next(req, chainLength, by) ==
  IF req.middlewareIndex < chainLength
  THEN [req |-> [req EXCEPT !.middlewareIndex = @ + 1,
                            !.trace = Append(@, Event("stage", req.middlewareIndex + 1, by, "", 0))],
        route |-> FALSE]
  ELSE [req |-> req, route |-> TRUE]

(***************************************************************************)
(* DocumentationService.  Text is a sequence of words; the content of a    *)
(* page is cut down to its heading line, the code of an example to one     *)
(* word; tags and dependencies, which nothing reads, are left out.  The    *)
(* boolean true is the value 1 in a stored record and in find conditions.  *)
(***************************************************************************)
True == 1
NaN == 0 - 2

PagesTable == "documentation_pages"
ExamplesTable == "documentation_examples"

\* setupDatabase: const pages = [...]
PageSeeds ==
  <<[title |-> <<"Getting", "Started">>, slug |-> <<"getting-started">>,
      content |-> <<"#", "Getting", "Started", "with", "Synapse">>,
      category |-> "getting-started", order |-> 1],
     [title |-> <<"Core", "Framework">>, slug |-> <<"core">>,
      content |-> <<"#", "Core", "Framework">>,
      category |-> "core", order |-> 2],
     [title |-> <<"Enterprise", "Features">>, slug |-> <<"enterprise">>,
      content |-> <<"#", "Enterprise", "Features">>,
      category |-> "enterprise", order |-> 3],
     [title |-> <<"Next-Generation", "Features">>, slug |-> <<"nextgen">>,
      content |-> <<"#", "Next-Generation", "Features">>,
      category |-> "nextgen", order |-> 4],
     [title |-> <<"Futuristic", "Features">>, slug |-> <<"futuristic">>,
      content |-> <<"#", "Futuristic", "Features">>,
      category |-> "futuristic", order |-> 5],
     [title |-> <<"API", "Reference">>, slug |-> <<"api">>,
      content |-> <<"#", "API", "Reference">>,
      category |-> "api", order |-> 6],
     [title |-> <<"Examples", "&", "Tutorials">>, slug |-> <<"examples">>,
      content |-> <<"#", "Examples", "&", "Tutorials">>,
      category |-> "examples", order |-> 7]>>

\* setupDatabase: const examples = [...]
ExampleSeeds ==
  <<[title |-> <<"Basic", "Server", "Setup">>,
      description |-> <<"Create", "a", "simple", "HTTP", "server", "with", "Synapse">>,
      code |-> <<"code">>, language |-> <<"typescript">>, category |-> <<"Core">>,
      package |-> <<"@synapse/core">>, isRunnable |-> True],
     [title |-> <<"AI", "Integration", "with", "Web", "AI">>,
      description |-> <<"Use", "Google", "Web", "AI", "for", "browser-based", "AI", "generation">>,
      code |-> <<"code">>, language |-> <<"typescript">>, category |-> <<"AI">>,
      package |-> <<"@synapse/ai">>, isRunnable |-> True]>>

RECURSIVE insertAll(_, _, _, _, _)
\* for (const x of seeds) this.database.insert(tableName, x): the store after
\* the loop, the first insert taking the identifier firstId
insertAll(d, tableName, seeds, firstId, t) ==
  IF seeds = <<>> THEN d
  ELSE insertAll(insert(d, tableName, Head(seeds), firstId, t, t).data,
                 tableName, Tail(seeds), firstId + 1, t)

\* variant: seeding is skipped when the pages table is already there
setupDatabaseGuarded(d, firstId, t) ==
  IF PagesTable \in DOMAIN d THEN d
  ELSE insertAll(insertAll(d, PagesTable, PageSeeds, firstId, t),
                 ExamplesTable, ExampleSeeds, firstId + Len(PageSeeds), t)

setupDatabase(d, firstId, t) ==
  insertAll(insertAll(d, PagesTable, PageSeeds, firstId, t),
            ExamplesTable, ExampleSeeds, firstId + Len(PageSeeds), t)

\* the paths and handlers of setupRoutes, in the order of their registration
ServiceRoutes ==
  << <<<<"/">>, "home">>, <<<<"/", ":slug">>, "page">>,
     <<<<"/", "examples">>, "examples">>, <<<<"/", "api">>, "api">>,
     <<<<"/", "api", "/", "search">>, "search">> >>

RECURSIVE setupRoutes(_, _)
\* this.server.get(path, handler) for the first n entries of ServiceRoutes
setupRoutes(rts, n) ==
  IF n = 0 THEN rts
  ELSE register(setupRoutes(rts, n - 1), "GET", ServiceRoutes[n][1], ServiceRoutes[n][2])

RECURSIVE setupHistory(_, _)
setupHistory(history, n) ==
  IF n = 0 THEN history
  ELSE registered(setupHistory(history, n - 1), <<"GET", ServiceRoutes[n][1]>>, ServiceRoutes[n][2])

\* the templates, cut down to the tokens render tells apart
HomeTemplate ==
  <<VarTok("title"), VarTok("description"), VarTok("description"),
    ForTag("page", "pages"), DotTok("page", "title"),
    Txt("{{page.content.substring(0, 150)}}"), DotTok("page", "slug"), EndForTag>>

PageTemplate == <<VarTok("title"), Txt("- Synapse Framework"), VarTok("content")>>

ExamplesTemplate ==
  <<VarTok("title"), VarTok("title"), VarTok("description"),
    ForTag("example", "examples"), DotTok("example", "title"),
    DotTok("example", "description"), DotTok("example", "language"),
    DotTok("example", "category"), DotTok("example", "package"),
    DotTok("example", "code"), EndForTag>>

APITemplate == <<"API Reference">>
NotFoundPage == <<"Page not found">>

\* words as the text tokens of the renderer
AsText(words) == Str([i \in 1..Len(words) |-> Txt(words[i])])

\* a stored record as an element of a render context: its text fields
AsObject(record, fields) == [k \in fields \cap DOMAIN record |-> AsText(record[k])]

AsArray(records, fields) ==
  Arr([i \in 1..Len(records) |-> AsObject(records[i], fields)])

\* the words that String.prototype.toLowerCase changes
LowerCase ==
  ("AI" :> "ai") @@
  ("API" :> "api") @@
  ("Basic" :> "basic") @@
  ("Core" :> "core") @@
  ("Create" :> "create") @@
  ("Enterprise" :> "enterprise") @@
  ("Examples" :> "examples") @@
  ("Features" :> "features") @@
  ("Framework" :> "framework") @@
  ("Futuristic" :> "futuristic") @@
  ("GETTING" :> "getting") @@
  ("SERVER" :> "server") @@
  ("Getting" :> "getting") @@
  ("Google" :> "google") @@
  ("HTTP" :> "http") @@
  ("Integration" :> "integration") @@
  ("Next-Generation" :> "next-generation") @@
  ("Reference" :> "reference") @@
  ("Server" :> "server") @@
  ("Setup" :> "setup") @@
  ("Started" :> "started") @@
  ("Synapse" :> "synapse") @@
  ("Tutorials" :> "tutorials") @@
  ("Use" :> "use") @@
  ("Web" :> "web")

toLowerCase(text) ==
  [i \in 1..Len(text) |-> IF text[i] \in DOMAIN LowerCase THEN LowerCase[text[i]] ELSE text[i]]

\* variant: String.prototype.includes without the lowering of either side
includesExactCase(text, term) ==
  \E i \in 0..(Len(text) - Len(term)) : SubSeq(text, i + 1, i + Len(term)) = term

\* text.toLowerCase().includes(term.toLowerCase())
includesIgnoringCase(text, term) ==
  LET a == toLowerCase(text)
      b == toLowerCase(term)
  IN \E i \in 0..(Len(a) - Len(b)) : SubSeq(a, i + 1, i + Len(b)) = b

\* req.url?.split('/')[1] || '': the tokens between the first two "/"
slugOf(rawUrl) ==
  IF ~\E i \in 1..Len(rawUrl) : rawUrl[i] = "/" THEN <<>>
  ELSE LET i == CHOOSE i \in 1..Len(rawUrl) :
                  rawUrl[i] = "/" /\ \A j \in 1..(i - 1) : rawUrl[j] # "/"
       IN splitFirst(SubSeq(rawUrl, i + 1, Len(rawUrl)), "/")

\* new URL(req.url || '', 'http://localhost').searchParams.get('q') || '':
\* the value of the first q=... among the &-separated pairs after the first "?"
RECURSIVE firstQ(_)
firstQ(pairs) ==
  IF pairs = <<>> THEN <<>>
  ELSE LET pair == splitFirst(pairs, "&")
           rest == SubSeq(pairs, Len(pair) + 2, Len(pairs))
       IN IF pair # <<>> /\ pair[1] = "q"
          THEN (IF Len(pair) >= 2 /\ pair[2] = "=" THEN SubSeq(pair, 3, Len(pair)) ELSE <<>>)
          ELSE firstQ(rest)

queryOf(rawUrl) ==
  LET before == splitFirst(rawUrl, "?")
  IN firstQ(SubSeq(rawUrl, Len(before) + 2, Len(rawUrl)))

\* page.views++ on a number, on NaN and on a missing field
increment(v) == IF v = Undefined \/ v = NaN THEN NaN ELSE v + 1

NoEffect(d) == [data |-> d, resp |-> <<>>, pend |-> <<>>]

\* GET /: the response is written after the await of render
homeHandler(req, d, t) ==
  LET pages == find(d, PagesTable, TRUE, [k \in {"isPublished"} |-> True])
      html == render(HomeTemplate,
                     [k \in {"pages", "title", "description"} |->
                        IF k = "pages" THEN AsArray(pages, {"title", "slug", "content"})
                        ELSE IF k = "title" THEN AsText(<<"Synapse", "Framework", "Documentation">>)
                        ELSE AsText(<<"Complete", "documentation">>)]).out
  IN [data |-> d, resp |-> <<>>, pend |-> <<Resp(200, "text/html", html)>>]

\* GET /:slug: find, views++, update and then the await of render
pageHandler(req, d, t) ==
  LET slug == slugOf(req.rawUrl)
      pages == find(d, PagesTable, TRUE,
                    [k \in {"slug", "isPublished"} |-> IF k = "slug" THEN slug ELSE True])
      page == Spread(pages[1], [k \in {"views"} |-> increment(Get(pages[1], "views"))])
      touched == [d EXCEPT ![PagesTable] = MapSet(@, page["id"], page)]
      html == render(PageTemplate,
                     [k \in {"page", "title", "content"} |->
                        IF k = "page" THEN Arr(<<AsObject(page, {"title", "slug", "content"})>>)
                        ELSE AsText(page[k])]).out
  IN IF pages = <<>>
     THEN [data |-> d, resp |-> <<Resp(404, "text/html", NotFoundPage)>>, pend |-> <<>>]
     ELSE [data |-> update(touched, PagesTable, page["id"],
                           [k \in {"views"} |-> page["views"]], t).data,
           resp |-> <<>>, pend |-> <<Resp(200, "text/html", html)>>]

\* GET /examples
examplesHandler(req, d, t) ==
  LET examples == find(d, ExamplesTable, FALSE, EmptyRec)
      html == render(ExamplesTemplate,
                     [k \in {"examples", "title", "description"} |->
                        IF k = "examples"
                        THEN AsArray(examples, {"title", "description", "language",
                                                "category", "package", "code"})
                        ELSE IF k = "title" THEN AsText(<<"Code", "Examples">>)
                        ELSE AsText(<<"Practical", "examples">>)]).out
  IN [data |-> d, resp |-> <<>>, pend |-> <<Resp(200, "text/html", html)>>]

\* GET /api
apiHandler(req, d, t) ==
  [data |-> d, resp |-> <<Resp(200, "text/html", APITemplate)>>, pend |-> <<>>]

\* GET /api/search
searchHandler(req, d, t) ==
  LET query == queryOf(req.rawUrl)
      pages == find(d, PagesTable, TRUE, [k \in {"isPublished"} |-> True])
      examples == find(d, ExamplesTable, FALSE, EmptyRec)
      results ==
        SelectSeq(pages, LAMBDA p : \/ includesIgnoringCase(p["title"], query)
                                    \/ includesIgnoringCase(p["content"], query))
        \o SelectSeq(examples, LAMBDA e : \/ includesIgnoringCase(e["title"], query)
                                          \/ includesIgnoringCase(e["description"], query))
  IN [data |-> d,
      resp |-> <<Resp(200, "application/json", <<[results |-> results, query |-> query]>>)>>,
      pend |-> <<>>]

\* what invoking the handler h does to the store and to the response before
\* the handler returns or first suspends; the handlers of the routing
\* inputs do nothing
runHandler(h, req, d, t) ==
  CASE h = "home" -> homeHandler(req, d, t)
    [] h = "page" -> pageHandler(req, d, t)
    [] h = "examples" -> examplesHandler(req, d, t)
    [] h = "api" -> apiHandler(req, d, t)
    [] h = "search" -> searchHandler(req, d, t)
    [] OTHER -> NoEffect(d)

\* the request after routeRequest, and the store after the handler it invoked
routeRequest(req, by, rts, chainLength, d, t) ==
  LET r == lookup(rts, req.method, req.path)
      ran == runHandler(r.handler, req, d, t)
  IN IF r.found
     THEN [req |-> [req EXCEPT !.trace = Append(@, Event("handler", 0, by, r.handler, chainLength)),
                               !.resp = @ \o ran.resp,
                               !.pend = @ \o ran.pend],
           data |-> ran.data]
     ELSE [req |-> [req EXCEPT !.trace = Append(@, Event("notfound", 0, by, "", chainLength)),
                               !.resp = Append(@, Resp(404, "text/html", <<"dispatcher404">> \o req.path))],
           data |-> d]

\* variant: start() begins to listen before it initializes
stepOfListenFirst(kind, at) ==
  IF kind = "start"
  THEN (IF at \in 1..4 THEN <<"listen", "setupDatabase", "setupRoutes", "generateContent">>[at]
        ELSE "done")
  ELSE (IF at \in 1..3 THEN <<"setupDatabase", "setupRoutes", "generateContent">>[at]
        ELSE "done")

\* variant: initialize() ends by listening, as start() does
stepOfAlwaysListens(kind, at) ==
  IF at \in 1..3 THEN <<"setupDatabase", "setupRoutes", "generateContent">>[at]
  ELSE IF at = 4 THEN "listen"
  ELSE "done"

\* what a call of initialize() or start() does after its at-th await:
\* initialize awaits connect, setupDatabase, setupRoutes and generateContent
\* in turn, and start awaits initialize before this.server.start()
stepOf(kind, at) ==
  IF at \in 1..3 THEN <<"setupDatabase", "setupRoutes", "generateContent">>[at]
  ELSE IF at = 4 /\ kind = "start" THEN "listen"
  ELSE "done"

(***************************************************************************)
(* Server actions                                                          *)
(***************************************************************************)
ServerGet(path, handler) ==
  /\ routes' = register(routes, "GET", path, handler)
  /\ latest' = registered(latest, <<"GET", path>>, handler)
  /\ UNCHANGED <<middleware, listening, reqs, svc, dbVars, tplVars, tasks>>

ServerPost(path, handler) ==
  /\ routes' = register(routes, "POST", path, handler)
  /\ latest' = registered(latest, <<"POST", path>>, handler)
  /\ UNCHANGED <<middleware, listening, reqs, svc, dbVars, tplVars, tasks>>

Use(fn) ==
  /\ Len(middleware) < MaxStages
  /\ middleware' = Append(middleware, fn)
  /\ UNCHANGED <<routes, listening, reqs, latest, svc, dbVars, tplVars, tasks>>

\* SimpleServer.start: from here on requests reach handleRequest
ServerStart ==
  /\ ~listening
  /\ listening' = TRUE
  /\ UNCHANGED <<routes, middleware, reqs, latest, svc, dbVars, tplVars, tasks>>

\* the request r is answered: a handler was invoked for it or the 404 written
Routed(req) == \E i \in 1..Len(req.trace) : req.trace[i].ev \in {"handler", "notfound"}

\* the effect of a call of next() for request r, made by stage number by
Continue(r, req, by) ==
  LET n == next(req, Len(middleware), by)
      routed == routeRequest(n.req, by, routes, Len(middleware), data, now)
  IN IF n.route
     THEN reqs' = [reqs EXCEPT ![r] = routed.req] /\ data' = routed.data
     ELSE reqs' = [reqs EXCEPT ![r] = n.req] /\ data' = data

\* handleRequest up to its return, for a request r not seen before
HandleRequest(r, rawMethod, rawUrl) ==
  /\ listening
  /\ reqs[r].st = "none"
  /\ LET req == [NoReq EXCEPT !.st = "open", !.rawMethod = rawMethod, !.rawUrl = rawUrl,
                              !.method = requestMethod(rawMethod),
                              !.path = requestPath(rawUrl)]
         routed == routeRequest(req, 0, routes, Len(middleware), data, now)
     IN IF Len(middleware) > 0
        THEN Continue(r, req, 0)
        ELSE reqs' = [reqs EXCEPT ![r] = routed.req] /\ data' = routed.data
  /\ UNCHANGED <<routes, middleware, listening, latest, svc, now, uuidCount, issued, call, tplVars, tasks>>

\* stage number i, which has run for request r, invokes its continuation
InvokeNext(r, i) ==
  /\ reqs[r].st = "open"
  /\ i \in 1..Len(middleware)
  /\ \E e \in 1..Len(reqs[r].trace) : reqs[r].trace[e].ev = "stage" /\ reqs[r].trace[e].n = i
  /\ reqs[r].calls[i] < invocations(middleware[i], reqs[r])
  /\ Continue(r, [reqs[r] EXCEPT !.calls[i] = @ + 1], i)
  /\ UNCHANGED <<routes, middleware, listening, latest, svc, now, uuidCount, issued, call, tplVars, tasks>>

\* the response an async handler writes after its await
Respond(r) ==
  /\ reqs[r].pend # <<>>
  /\ reqs' = [reqs EXCEPT ![r].resp = Append(@, Head(reqs[r].pend)),
                          ![r].pend = Tail(@)]
  /\ UNCHANGED <<routes, middleware, listening, latest, svc, dbVars, tplVars, tasks>>

(***************************************************************************)
(* Service actions: a call c of start() or initialize(), taken from one    *)
(* await to the next                                                       *)
(***************************************************************************)
\* the call is made and runs up to its first await, that of database.connect()
SvcBegin(c, kind) ==
  /\ svc[c].kind = "none"
  /\ svc' = [svc EXCEPT ![c] = [kind |-> kind, at |-> 1]]
  /\ UNCHANGED <<routes, middleware, listening, reqs, latest, dbVars, tplVars, tasks>>

SetupDatabase(c) ==
  /\ svc[c].kind # "none" /\ stepOf(svc[c].kind, svc[c].at) = "setupDatabase"
  /\ data' = setupDatabase(data, uuidCount + 1, now)
  /\ uuidCount' = uuidCount + Len(PageSeeds) + Len(ExampleSeeds)
  /\ svc' = [svc EXCEPT ![c].at = @ + 1]
  /\ UNCHANGED <<routes, middleware, listening, reqs, latest, now, issued, call, tplVars, tasks>>

SetupRoutes(c) ==
  /\ svc[c].kind # "none" /\ stepOf(svc[c].kind, svc[c].at) = "setupRoutes"
  /\ routes' = setupRoutes(routes, Len(ServiceRoutes))
  /\ latest' = setupHistory(latest, Len(ServiceRoutes))
  /\ svc' = [svc EXCEPT ![c].at = @ + 1]
  /\ UNCHANGED <<middleware, listening, reqs, dbVars, tplVars, tasks>>

GenerateContent(c) ==
  /\ svc[c].kind # "none" /\ stepOf(svc[c].kind, svc[c].at) = "generateContent"
  /\ svc' = [svc EXCEPT ![c].at = @ + 1]
  /\ UNCHANGED <<routes, middleware, listening, reqs, latest, dbVars, tplVars, tasks>>

\* this.server.start(): createServer and listen
Listen(c) ==
  /\ svc[c].kind # "none" /\ stepOf(svc[c].kind, svc[c].at) = "listen"
  /\ listening' = TRUE
  /\ svc' = [svc EXCEPT ![c].at = @ + 1]
  /\ UNCHANGED <<routes, middleware, reqs, latest, dbVars, tplVars, tasks>>

(***************************************************************************)
(* Inputs of the server                                                    *)
(***************************************************************************)
RoutePaths == {<<"/">>, <<"/", "foo">>, <<"/", ":slug">>}
Handlers == {"h1", "h2"}
MethodInputs == {"", "GET", "POST"}
UrlInputs ==
  {<<>>, <<"/">>, <<"/", "foo">>, <<"/", "foo", "?", "q">>, <<"/", "foo", "?", "q", "?", "r">>,
   <<"/", ":slug">>}

\* registrations in any order between requests, no middleware
NextRoute ==
  \/ \E q \in RoutePaths, h \in Handlers : ServerGet(q, h)
  \/ \E h \in Handlers : ServerPost(<<"/", "foo">>, h)
  \/ ServerStart
  \/ \E m \in MethodInputs, u \in UrlInputs : HandleRequest(1, m, u)

SpecRoute == InitDB(0) /\ [][NextRoute]_vars

StageFns == {"guard", "pass", "twice"}

\* two requests in flight together, one with a query and one without, through
\* a chain of stages that invoke their continuation never, once or twice
NextChain ==
  \/ \E fn \in StageFns : Use(fn)
  \/ ServerGet(<<"/", "foo">>, "h1")
  \/ ServerStart
  \/ HandleRequest(1, "GET", <<"/", "foo", "?", "q">>)
  \/ HandleRequest(2, "GET", <<"/", "foo">>)
  \/ \E r \in ReqIds, i \in 1..MaxStages : InvokeNext(r, i)

SpecChain == InitDB(0) /\ [][NextChain]_vars

SearchPath == <<"/", "api", "/", "search">>

ServiceUrls ==
  {<<"/">>, <<"/", "getting-started">>, <<"/", "nosuch">>, <<"/", ":slug">>,
   <<"/", "examples">>, <<"/", "api">>, SearchPath,
   SearchPath \o <<"?", "q", "=">>,
   SearchPath \o <<"?", "q", "=", "getting">>,
   SearchPath \o <<"?", "q", "=", "GETTING">>,
   SearchPath \o <<"?", "q", "=", "basic">>,
   SearchPath \o <<"?", "x", "=", "basic", "&", "q", "=", "SERVER">>}

\* one call of start() and one of initialize() on the same service, in any
\* interleaving of their awaits, and two GET requests once it listens
NextService ==
  \/ SvcBegin(1, "start")
  \/ SvcBegin(2, "initialize")
  \/ \E c \in SvcCalls : SetupDatabase(c)
  \/ \E c \in SvcCalls : SetupRoutes(c)
  \/ \E c \in SvcCalls : GenerateContent(c)
  \/ \E c \in SvcCalls : Listen(c)
  \/ \E r \in ReqIds, u \in ServiceUrls : HandleRequest(r, "GET", u)
  \/ \E r \in ReqIds : Respond(r)

SpecService == InitDB(0) /\ [][NextService]_vars

\* the call c is resumed after an await and runs to its next one: the step
\* that SetupDatabase, SetupRoutes, GenerateContent or Listen takes for c
Resume(c) ==
  /\ svc[c].kind # "none" /\ stepOf(svc[c].kind, svc[c].at) # "done"
  /\ svc' = [svc EXCEPT ![c].at = @ + 1]

\* a call that stands at an await is resumed: the awaited promises of
\* connect, setupDatabase, setupRoutes, generateContent and listen all settle
SpecServiceLive == SpecService /\ \A c \in SvcCalls : WF_svc(Resume(c))

(***************************************************************************)
(* Properties of the record store.  call' names the operation of a step    *)
(* and its arguments: every action sets it.                                *)
(***************************************************************************)
KeysOf(table) == {table[i][1] : i \in 1..Len(table)}

\* the record a table holds under key k
RecordOf(table, k) ==
  (CHOOSE e \in {table[i] : i \in 1..Len(table)} : e[1] = k)[2]

RECURSIVE Ascending(_)
Ascending(S) ==
  IF S = {} THEN <<>>
  ELSE LET m == CHOOSE x \in S : \A y \in S : x <= y
       IN <<m>> \o Ascending(S \ {m})

\* Identifiers are numbered in the order randomUUID() produced them, so the
\* records under the keys K in insertion order are those keys ascending.
InInsertionOrder(table, K) ==
  LET ks == Ascending(K) IN [i \in 1..Len(ks) |-> RecordOf(table, ks[i])]

Present(d, t, k) == t \in DOMAIN d /\ k \in KeysOf(d[t])

OthersUnchanged(t) ==
  \A o \in DOMAIN data : o # t => (o \in DOMAIN data' /\ data'[o] = data[o])

\* C1: for a table name that was never created, find (with or without
\* conditions) returns the empty sequence, raises nothing and creates no
\* table; insert raises nothing, creates the table, and find on it then
\* returns exactly the one record insert returned.
C1_AbsentTableFindEmptyInsertCreates ==
  [][call'.table \notin DOMAIN data =>
       /\ call'.op = "find" =>
            (call'.retList = <<>> /\ ~call'.raised /\ data' = data)
       /\ call'.op = "insert" =>
            /\ ~call'.raised
            /\ call'.table \in DOMAIN data'
            /\ find(data', call'.table, FALSE, EmptyRec) = <<call'.retRec>>
            /\ find(data', call'.table, TRUE, EmptyRec) = <<call'.retRec>>
            /\ OthersUnchanged(call'.table)]_vars

\* insert has just created its table and stored its first record, next to
\* another table that exists
C1_Witness ==
  /\ call.op = "insert" /\ call.created /\ ~call.raised
  /\ data[call.table] = <<<<call.retRec["id"], call.retRec>>>>
  /\ DOMAIN data = Tables

\* C2: the id insert returns for a table was never returned by an earlier
\* insert into that table name, whatever was deleted or re-created since
\* and whatever id the inserted fields carried.
C2_InsertIdsDistinct ==
  [][call'.op = "insert" =>
       (~call'.raised /\ call'.retRec["id"] \notin issued[call'.table])]_vars

\* a second id was issued for a table whose first record is gone, by an
\* insert whose fields carried the id of that first record
C2_Witness ==
  /\ call.op = "insert"
  /\ "id" \in DOMAIN call.fields
  /\ Cardinality(issued[call.table]) = 2
  /\ call.fields["id"] \in issued[call.table]
  /\ call.retRec["id"] # call.fields["id"]
  /\ KeysOf(data[call.table]) = {call.retRec["id"]}

\* C3: the record insert returns has createdAt equal to updatedAt.
C3_InsertTimestampsEqual ==
  call.op = "insert" => call.retRec["createdAt"] = call.retRec["updatedAt"]

\* C4 (as stated): update of an existing record with {f: v} returns true,
\* leaves field f equal to v and every other field unchanged, and makes
\* updatedAt strictly later than it was.
C4_UpdateStrictlyLater ==
  [][(call'.op = "update" /\ Present(data, call'.table, call'.id)) =>
       LET old == findById(data, call'.table, call'.id)
           new == findById(data', call'.table, call'.id)
           u == call'.fields
       IN /\ call'.retBool
          /\ DOMAIN new = (DOMAIN old) \cup (DOMAIN u)
          /\ \A f \in DOMAIN u : new[f] = u[f]
          /\ \A g \in (DOMAIN old) \ ((DOMAIN u) \cup {"updatedAt"}) : new[g] = old[g]
          /\ new["updatedAt"] > old["updatedAt"]]_vars

\* C4 (amended): update of an existing record with {f: v} returns true; for
\* f other than updatedAt field f then equals v; every field other than f
\* and updatedAt is unchanged; updatedAt is the clock reading of the update,
\* which replaces a supplied updatedAt and is not earlier than the previous
\* updatedAt.
C4_UpdateMergesAndRefreshes ==
  [][(call'.op = "update" /\ Present(data, call'.table, call'.id)) =>
       LET old == findById(data, call'.table, call'.id)
           new == findById(data', call'.table, call'.id)
           u == call'.fields
       IN /\ call'.retBool
          /\ DOMAIN new = (DOMAIN old) \cup (DOMAIN u)
          /\ \A f \in (DOMAIN u) \ {"updatedAt"} : new[f] = u[f]
          /\ \A g \in (DOMAIN old) \ ((DOMAIN u) \cup {"updatedAt"}) : new[g] = old[g]
          /\ new["updatedAt"] = now'
          /\ new["updatedAt"] >= old["updatedAt"]]_vars

\* an update that named updatedAt has stored the clock reading instead, with
\* the clock still where the insert of the record left it
C4_Witness ==
  /\ call.op = "update" /\ call.retBool
  /\ "updatedAt" \in DOMAIN call.fields
  /\ LET new == findById(data, call.table, call.id)
     IN /\ new["updatedAt"] = now
        /\ new["updatedAt"] # call.fields["updatedAt"]
        /\ new["createdAt"] = now

\* C5: createTable raises nothing and leaves the named table empty whether
\* it was absent, empty or populated; creating it again changes nothing
\* more; every other table keeps its contents.
C5_CreateTableResets ==
  [][call'.op = "createTable" =>
       /\ ~call'.raised
       /\ DOMAIN data' = (DOMAIN data) \cup {call'.table}
       /\ find(data', call'.table, FALSE, EmptyRec) = <<>>
       /\ \A c \in ConditionInputs : find(data', call'.table, TRUE, c) = <<>>
       /\ createTable(data', call'.table) = data'
       /\ OthersUnchanged(call'.table)]_vars

\* createTable has emptied a table that had issued ids, next to a populated one
C5_Witness ==
  /\ call.op = "createTable"
  /\ data[call.table] = <<>> /\ issued[call.table] # {}
  /\ \E o \in DOMAIN data : o # call.table /\ data[o] # <<>>

\* a record matches when every named field is present and equal
ClaimMatch(record, conditions) ==
  \A key \in DOMAIN conditions :
    key \in DOMAIN record /\ record[key] = conditions[key]

\* a missing field reads as undefined, and so equals a given undefined
ReadMatch(record, conditions) ==
  \A key \in DOMAIN conditions :
    \/ key \in DOMAIN record /\ record[key] = conditions[key]
    \/ key \notin DOMAIN record /\ conditions[key] = Undefined

\* C6 (as stated): find returns, in insertion order, all records of the
\* table, or with conditions exactly those whose every named field is
\* present and equal to the given value; empty conditions return all.
C6_FindPresentAndEqual ==
  [][(call'.op = "find" /\ call'.table \in DOMAIN data) =>
       LET table == data[call'.table]
       IN call'.retList =
            InInsertionOrder(table,
              {k \in KeysOf(table) :
                 ~call'.hasConditions \/ ClaimMatch(RecordOf(table, k), call'.fields)})]_vars

\* C6 (amended): as stated, except that a record lacking a named field
\* matches exactly when the value given for that field is undefined.
C6_FindFiltersInOrder ==
  [][(call'.op = "find" /\ call'.table \in DOMAIN data) =>
       LET table == data[call'.table]
       IN /\ data' = data
          /\ call'.retList =
               InInsertionOrder(table,
                 {k \in KeysOf(table) :
                    ~call'.hasConditions \/ ReadMatch(RecordOf(table, k), call'.fields)})]_vars

\* find with {f: undefined} returned the record lacking f and left out the
\* one that has f, inserted before it
C6_Witness ==
  /\ call.op = "find" /\ call.hasConditions
  /\ call.fields = [k \in {"f"} |-> Undefined]
  /\ call.table \in DOMAIN data
  /\ Len(data[call.table]) = 2
  /\ "f" \in DOMAIN data[call.table][1][2]
  /\ "f" \notin DOMAIN data[call.table][2][2]
  /\ call.retList = <<data[call.table][2][2]>>

\* C7: findById, update and delete on a missing table or a missing id raise
\* nothing, return null, false and false, and leave the store as it was.
C7_MissingTargetIsNoOp ==
  [][~Present(data, call'.table, call'.id) =>
       /\ call'.op = "findById" =>
            (call'.retRec = NullRec /\ ~call'.raised /\ data' = data)
       /\ call'.op \in {"update", "delete"} =>
            (~call'.retBool /\ ~call'.raised /\ data' = data)]_vars

\* update has returned false for a key that its populated table lacks
C7_Witness ==
  /\ call.op = "update" /\ ~call.retBool
  /\ call.table \in DOMAIN data
  /\ data[call.table] # <<>>
  /\ call.id \notin KeysOf(data[call.table])

\* C8: delete of an existing record returns true and removes exactly that
\* record: findById no longer finds it, find returns the other records in
\* their previous order, other tables are unchanged, and deleting it again
\* returns false.
C8_DeleteRemovesExactlyOne ==
  [][(call'.op = "delete" /\ Present(data, call'.table, call'.id)) =>
       LET t == call'.table
           k == call'.id
       IN /\ call'.retBool /\ ~call'.raised
          /\ findById(data', t, k) = NullRec
          /\ find(data', t, FALSE, EmptyRec) =
               InInsertionOrder(data[t], KeysOf(data[t]) \ {k})
          /\ OthersUnchanged(t)
          /\ DOMAIN data' = DOMAIN data
          /\ ~delete(data', t, k).ret]_vars

\* delete has returned true and its table still holds another record
C8_Witness ==
  /\ call.op = "delete" /\ call.retBool
  /\ data[call.table] # <<>>
  /\ call.id \in issued[call.table]
  /\ call.id \notin KeysOf(data[call.table])

(***************************************************************************)
(* Properties of the renderer.  result.vars is the text the variable pass  *)
(* leaves and the conditional pass reads; result.ifs is the text the       *)
(* conditional pass leaves.                                                *)
(***************************************************************************)
\* the tokens of text at the positions that Drop does not name, in order
Keeping(text, Drop(_)) ==
  LET ks == Ascending({p \in 1..Len(text) : ~Drop(p)})
  IN [i \in 1..Len(ks) |-> text[ks[i]]]

RECURSIVE StringForms(_, _)
\* every {{name}} replaced by the string form of d[name], or by nothing when
\* d has no such name
StringForms(text, d) ==
  IF text = <<>> THEN <<>>
  ELSE (IF Head(text).k = "var"
        THEN (IF Head(text).a \in DOMAIN d THEN ToStr(d[Head(text).a]) ELSE <<>>)
        ELSE <<Head(text)>>) \o StringForms(Tail(text), d)

\* C9: after the variable pass every {{name}} token stands replaced by the
\* string form of context[name] when the name is present (0, false and the
\* empty string included) and by the empty string only when it is absent.
C9_VariablesStringForm ==
  pc = "done" => result.vars = StringForms(template, ctx)

\* text[i] is an if tag and text[j] the first endif tag after it
IsSpan(text, i, j) ==
  /\ i < j
  /\ text[i].k = "if"
  /\ text[j].k = "endif"
  /\ \A m \in (i + 1)..(j - 1) : text[m].k # "endif"

Falsy(d, name) == name \notin DOMAIN d \/ ~Truthy(d[name])

\* C10 (as stated): every span from an if tag to the first endif after it
\* is replaced by its inner content when context[name] is truthy and
\* removed with its content when it is falsy or absent; the text outside
\* is unchanged.
C10_EverySpanReplaced ==
  pc = "done" =>
    LET text == result.vars
        Drop(p) ==
          \E i \in 1..Len(text), j \in 1..Len(text) :
            /\ IsSpan(text, i, j)
            /\ p = i \/ p = j \/ (Falsy(ctx, text[i].a) /\ i <= p /\ p <= j)
    IN result.ifs = Keeping(text, Drop)

\* an if tag that no earlier span contains: every if tag before it has an
\* endif between the two
Opens(text, i) ==
  /\ text[i].k = "if"
  /\ \A h \in 1..(i - 1) :
       text[h].k = "if" => \E m \in (h + 1)..(i - 1) : text[m].k = "endif"

\* C10 (amended): the spans are taken from left to right without overlap,
\* an if tag inside an earlier span being part of that span's content;
\* each such span is replaced by its inner content when context[name] is
\* truthy and removed with its content when it is falsy or absent; the
\* text outside these spans is unchanged.
C10_LeftmostSpansReplaced ==
  pc = "done" =>
    LET text == result.vars
        Drop(p) ==
          \E i \in 1..Len(text), j \in 1..Len(text) :
            /\ IsSpan(text, i, j)
            /\ Opens(text, i)
            /\ p = i \/ p = j \/ (Falsy(ctx, text[i].a) /\ i <= p /\ p <= j)
    IN result.ifs = Keeping(text, Drop)

\* a kept span whose content holds a second if tag, which stays in the
\* output, with text before the span
C10_Witness ==
  /\ pc = "done"
  /\ LET text == result.vars
     IN \E i \in 1..Len(text), h \in 1..Len(text), j \in 1..Len(text) :
          /\ IsSpan(text, i, j) /\ Opens(text, i)
          /\ i < h /\ h < j /\ text[h].k = "if"
          /\ ~Falsy(ctx, text[i].a)
          /\ i > 1
          /\ result.ifs = SubSeq(text, 1, i - 1) \o SubSeq(text, i + 1, j - 1)

\* the tokens of text with every {{name}} replaced from the context d: by the
\* string form of a truthy d[name], by nothing otherwise
OuterResolved(text, d) ==
  LET piece(i) ==
        IF text[i].k # "var" THEN <<text[i]>>
        ELSE IF Falsy(d, text[i].a) THEN <<>> ELSE ToStr(d[text[i].a])
      RECURSIVE upTo(_)
      upTo(i) == IF i = 0 THEN <<>> ELSE upTo(i - 1) \o piece(i)
  IN upTo(Len(text))

\* the text with its leftmost non-overlapping if spans decided by the context d
SpansDecided(text, d) ==
  LET Drop(p) ==
        \E i \in 1..Len(text), j \in 1..Len(text) :
          /\ IsSpan(text, i, j)
          /\ Opens(text, i)
          /\ p = i \/ p = j \/ (Falsy(d, text[i].a) /\ i <= p /\ p <= j)
  IN Keeping(text, Drop)

\* the elements a loop over d[name] visits
Elements(d, name) ==
  IF name \in DOMAIN d /\ d[name].t = "array" THEN d[name].v ELSE <<>>

\* what stands for {{item.prop}}: the string form of the element's field
\* (stringForm), or that of a truthy field only
FieldText(item, prop, stringForm) ==
  IF prop \notin DOMAIN item THEN <<>>
  ELSE IF stringForm \/ Truthy(item[prop]) THEN ToStr(item[prop]) ELSE <<>>

\* one copy of body for the element item
BodyCopy(body, itemVar, item, stringForm) ==
  LET piece(i) ==
        IF body[i].k = "dot" /\ body[i].a = itemVar
        THEN FieldText(item, body[i].b, stringForm) ELSE <<body[i]>>
      RECURSIVE upTo(_)
      upTo(i) == IF i = 0 THEN <<>> ELSE upTo(i - 1) \o piece(i)
  IN upTo(Len(body))

RECURSIVE LoopsExpanded(_, _, _)
\* the text with each for span, taken from left to right (a for tag up to the
\* first endfor tag after it), replaced by one copy of its body per element
LoopsExpanded(text, d, stringForm) ==
  IF ~\E i \in 1..Len(text) : text[i].k = "for" /\ HasKind(SubSeq(text, i + 1, Len(text)), "endfor")
  THEN text
  ELSE LET i == CHOOSE i \in 1..Len(text) :
                  /\ text[i].k = "for" /\ HasKind(SubSeq(text, i + 1, Len(text)), "endfor")
                  /\ \A h \in 1..(i - 1) :
                       ~(text[h].k = "for" /\ HasKind(SubSeq(text, h + 1, Len(text)), "endfor"))
           j == CHOOSE j \in (i + 1)..Len(text) :
                  text[j].k = "endfor" /\ \A m \in (i + 1)..(j - 1) : text[m].k # "endfor"
           body == SubSeq(text, i + 1, j - 1)
           elems == Elements(d, text[i].b)
           RECURSIVE copies(_)
           copies(e) ==
             IF e = 0 THEN <<>>
             ELSE copies(e - 1) \o BodyCopy(body, text[i].a, elems[e], stringForm)
       IN SubSeq(text, 1, i - 1) \o copies(Len(elems))
            \o LoopsExpanded(SubSeq(text, j + 1, Len(text)), d, stringForm)

\* C11: every for span of the text the loop pass reads is replaced by one
\* copy of its body per element of context[list], in element order, each
\* copy with its {{item.field}} tokens replaced by the string form of that
\* element's field; an absent or empty list leaves nothing of the span.
C11_LoopCopiesCarryFields ==
  (pc = "done" /\ ~result.raised) =>
    result.out = LoopsExpanded(result.ifs, ctx, TRUE)

\* C12: the output is the loop expansion of the text that the variable pass
\* and then the conditional pass leave of the whole template: every plain
\* {{field}} token, in a loop body or not, is resolved from the outer
\* context, every if block is decided once by the outer context, and only
\* then are the loop bodies copied per element.
C12_PassesInFixedOrder ==
  (pc = "done" /\ ~result.raised) =>
    result.out =
      LoopsExpanded(SpansDecided(OuterResolved(template, ctx), ctx), ctx, FALSE)

\* a loop over two elements whose field n is truthy, rendered with an outer n:
\* the plain token in its body came out as the outer value in both copies
C12_Witness ==
  /\ pc = "done"
  /\ template = <<ForTag("x", "items"), IfTag("n"), VarTok("n"), EndIfTag, EndForTag>>
  /\ "n" \in DOMAIN ctx
  /\ "items" \in DOMAIN ctx /\ ctx["items"] = Arr(<<ElemN(Num(1)), ElemN(Num(2))>>)
  /\ result.out = <<Txt("o"), Txt("o")>>

(***************************************************************************)
(* Properties of the dispatcher.  latest is written by get and post only,  *)
(* a request's trace and responses by handleRequest and its continuation.  *)
(***************************************************************************)
LastEvent(req) == req.trace[Len(req.trace)]

LastResp(req) == req.resp[Len(req.resp)]

\* this step routed request r: invoked a handler for it or wrote the 404
RoutedNow(r) ==
  /\ reqs'[r] # reqs[r]
  /\ reqs'[r].trace # <<>>
  /\ LastEvent(reqs'[r]).ev \in {"handler", "notfound"}

\* C13: a routed request is handed to a handler exactly when one was
\* registered for its very method and its very path, and then to the handler
\* of that registration; otherwise a 404 text/html response is written
\* whose body carries the requested path.
C13_ExactMethodAndPath ==
  [][\A r \in ReqIds : RoutedNow(r) =>
       LET req == reqs'[r]
           e == LastEvent(req)
           k == <<req.method, req.path>>
       IN /\ (e.ev = "handler") <=> (k \in DOMAIN latest)
          /\ e.ev = "handler" => e.h = latest[k].handler
          /\ e.ev = "notfound" =>
               LastResp(req) = Resp(404, "text/html", <<"dispatcher404">> \o req.path)]_vars

\* GET /foo got the 404 although GET /:slug and POST /foo have handlers
C13_Witness ==
  /\ reqs[1].st = "open"
  /\ reqs[1].method = "GET" /\ reqs[1].path = <<"/", "foo">>
  /\ LastEvent(reqs[1]).ev = "notfound"
  /\ <<"GET", <<"/", ":slug">>>> \in DOMAIN latest
  /\ <<"POST", <<"/", "foo">>>> \in DOMAIN latest
  /\ <<"GET", <<"/", "foo">>>> \notin DOMAIN latest

\* C14: a request is handed to the handler that was registered last for its
\* method and path, and a registration changes what is looked up for no
\* other method and path.
C14_LastRegistrationWins ==
  [][/\ \A r \in ReqIds : (RoutedNow(r) /\ LastEvent(reqs'[r]).ev = "handler") =>
          LastEvent(reqs'[r]).h = latest[<<reqs'[r].method, reqs'[r].path>>].handler
     /\ latest' # latest =>
          \A m \in MethodInputs, q \in RoutePaths :
            \/ <<m, q>> \in DOMAIN latest' /\
                 (<<m, q>> \notin DOMAIN latest \/ latest'[<<m, q>>] # latest[<<m, q>>])
            \/ lookup(routes', m, q) = lookup(routes, m, q)
     /\ \A k \in DOMAIN latest' :
          lookup(routes', k[1], k[2]) = [found |-> TRUE, handler |-> latest'[k].handler]]_vars

\* GET /foo was handed to h2, registered after h1 for the same method and
\* path, while POST /foo still has h1
C14_Witness ==
  /\ reqs[1].st = "open"
  /\ reqs[1].method = "GET" /\ reqs[1].path = <<"/", "foo">>
  /\ LastEvent(reqs[1]).ev = "handler" /\ LastEvent(reqs[1]).h = "h2"
  /\ <<"GET", <<"/", "foo">>>> \in DOMAIN latest
  /\ latest[<<"GET", <<"/", "foo">>>>] = [first |-> "h1", handler |-> "h2"]
  /\ <<"POST", <<"/", "foo">>>> \in DOMAIN latest
  /\ latest[<<"POST", <<"/", "foo">>>>].handler = "h1"

\* the tokens of a URL before its first "?"
BeforeQuery(url) ==
  SubSeq(url, 1, CHOOSE n \in 0..Len(url) :
                   /\ \A j \in 1..n : url[j] # "?"
                   /\ n = Len(url) \/ url[n + 1] = "?")

\* what a request for method and path is handed to under the registrations
Registered(method, path) ==
  IF <<method, path>> \in DOMAIN latest
  THEN [found |-> TRUE, handler |-> latest[<<method, path>>].handler]
  ELSE [found |-> FALSE, handler |-> ""]

\* C17: a request is routed by the part of its URL before the first "?", a
\* missing URL counting as "/" and a missing method as GET; so any URL with
\* the same part before the first "?" is routed alike.
C17_PathStopsAtQuery ==
  [][\A r \in ReqIds : RoutedNow(r) =>
       LET req == reqs'[r]
           e == LastEvent(req)
           outcome == [found |-> e.ev = "handler", handler |-> e.h]
           method == IF req.rawMethod = "" THEN "GET" ELSE req.rawMethod
           url == IF req.rawUrl = <<>> THEN <<"/">> ELSE req.rawUrl
       IN /\ outcome = Registered(method, BeforeQuery(url))
          /\ \A u \in UrlInputs :
               BeforeQuery(u) = BeforeQuery(url) =>
                 lookup(routes, requestMethod(req.rawMethod), requestPath(u)) = outcome]_vars

\* a request without a method for /foo?q?r was handed to the GET handler of /foo
C17_Witness ==
  /\ reqs[1].st = "open"
  /\ reqs[1].rawMethod = ""
  /\ reqs[1].rawUrl = <<"/", "foo", "?", "q", "?", "r">>
  /\ LastEvent(reqs[1]).ev = "handler"
  /\ <<"GET", <<"/", "foo">>>> \in DOMAIN latest

\* no stage has so far invoked its continuation more than once for req
OncePerStage(req) == \A i \in 1..MaxStages : req.calls[i] <= 1

\* the stages of req ran in the order of their registration, stage p
\* started by the continuation call of stage p - 1 (the first by
\* handleRequest), and the handler or the 404 writer ran last, started by the
\* continuation call of the last stage of the chain as registered then
InChainOrder(req) ==
  \A p \in 1..Len(req.trace) :
    LET e == req.trace[p]
        k == Cardinality({q \in 1..(p - 1) : req.trace[q].ev = "stage"})
    IN /\ e.by = k
       /\ k >= 1 => req.calls[k] >= 1
       /\ e.ev = "stage" => e.n = k + 1 /\ e.n <= Len(middleware)
       /\ e.ev # "stage" => e.len = k

StalledIn(req, i) ==
  /\ i \in 1..Len(middleware)
  /\ \E p \in 1..Len(req.trace) : req.trace[p].ev = "stage" /\ req.trace[p].n = i
  /\ invocations(middleware[i], req) = 0

\* nothing has happened to req after stage number i was started
HaltedAt(req, i) ==
  /\ LastEvent(req) = Event("stage", i, LastEvent(req).by, "", 0)
  /\ req.resp = <<>>

RecordsOf(d, tableName) ==
  IF tableName \in DOMAIN d THEN MapValues(d[tableName]) ELSE <<>>

\* the store holds every seeded page and every seeded example
Seeded(d) ==
  /\ \A i \in 1..Len(PageSeeds) :
       \E j \in 1..Len(RecordsOf(d, PagesTable)) :
         RecordsOf(d, PagesTable)[j]["slug"] = PageSeeds[i]["slug"]
  /\ \A i \in 1..Len(ExampleSeeds) :
       \E j \in 1..Len(RecordsOf(d, ExamplesTable)) :
         RecordsOf(d, ExamplesTable)[j]["title"] = ExampleSeeds[i]["title"]

\* every route of the service has its handler
AllRoutes(rts) ==
  \A i \in 1..Len(ServiceRoutes) :
    /\ "GET" \in DOMAIN rts
    /\ ServiceRoutes[i][1] \in DOMAIN rts["GET"]
    /\ rts["GET"][ServiceRoutes[i][1]] = ServiceRoutes[i][2]

\* uninitialized 0, initialized 1, serving 2
Phase(d, rts, l) == IF l THEN 2 ELSE IF Seeded(d) /\ AllRoutes(rts) THEN 1 ELSE 0

\* the request r has its final response
Answered(req) == req.st = "open" /\ Routed(req) /\ req.pend = <<>> /\ req.resp # <<>>

\* C18: a GET request for /<slug> is answered with 200 text/html rendered from
\* the stored page of that slug when there is one, and with the 404 page of
\* the service when there is none.
C18_SlugServesPage ==
  \A r \in ReqIds :
    (Answered(reqs[r]) /\ reqs[r].method = "GET" /\ Len(reqs[r].rawUrl) = 2
       /\ reqs[r].rawUrl[1] = "/") =>
      LET slug == <<reqs[r].rawUrl[2]>>
          pages == RecordsOf(data, PagesTable)
          resp == LastResp(reqs[r])
      IN IF \E j \in 1..Len(pages) : pages[j]["slug"] = slug
         THEN /\ resp.status = 200 /\ resp.type = "text/html"
              /\ \E j \in 1..Len(pages) :
                   /\ pages[j]["slug"] = slug
                   /\ resp.body = AsText(pages[j]["title"]).v
                                    \o <<Txt("- Synapse Framework")>>
                                    \o AsText(pages[j]["content"]).v
         ELSE resp.status = 404 /\ resp.type = "text/html"

\* C19: the service listens only with the store seeded and the routes
\* registered, a request is routed only then, and the service never goes
\* back from serving to initialized or from initialized to uninitialized.
C19_OnlyForward ==
  /\ [](listening => (Seeded(data) /\ AllRoutes(routes)))
  /\ [][/\ \A r \in ReqIds : RoutedNow(r) => (Seeded(data) /\ AllRoutes(routes))
        /\ Phase(data', routes', listening') >= Phase(data, routes, listening)]_vars

\* the service is serving, a request was handed to the search handler, and
\* a later initialize() has seeded the store a second time
C19_Witness ==
  /\ listening
  /\ svc[1] = [kind |-> "start", at |-> 5]
  /\ svc[2].kind = "initialize" /\ svc[2].at >= 2
  /\ Len(RecordsOf(data, PagesTable)) = 2 * Len(PageSeeds)
  /\ \E r \in ReqIds : Answered(reqs[r]) /\ LastEvent(reqs[r]).h = "search"

\* term occurs in text, both taken in lower case
ContainsIgnoringCase(text, term) ==
  \E i \in 0..(Len(text) - Len(term)) :
    \A j \in 1..Len(term) : toLowerCase(<<text[i + j]>>) = toLowerCase(<<term[j]>>)

\* the value of the first parameter q of a URL, empty when there is none
TermOf(url) ==
  IF \E i \in 2..(Len(url) - 1) : url[i] = "q" /\ url[i + 1] = "=" /\ url[i - 1] \in {"?", "&"}
  THEN LET i == CHOOSE i \in 2..(Len(url) - 1) :
                  /\ url[i] = "q" /\ url[i + 1] = "=" /\ url[i - 1] \in {"?", "&"}
                  /\ \A h \in 2..(i - 1) :
                       ~(url[h] = "q" /\ url[h + 1] = "=" /\ url[h - 1] \in {"?", "&"})
       IN splitFirst(SubSeq(url, i + 2, Len(url)), "&")
  ELSE <<>>

\* C20: a GET request for /api/search is answered at once with 200
\* application/json {results, query}: query is the value of q (empty when q
\* is absent), results are the pages found with isPublished = true whose
\* title or content contains it, in store order, followed by the examples
\* whose title or description contains it, case ignored throughout; the
\* store is left as it is.
C20_SearchResults ==
  [][\A r \in ReqIds :
       (RoutedNow(r) /\ reqs'[r].method = "GET" /\ reqs'[r].path = SearchPath) =>
         LET term == TermOf(reqs'[r].rawUrl)
             pages == SelectSeq(RecordsOf(data, PagesTable),
                                LAMBDA p : "isPublished" \in DOMAIN p /\ p["isPublished"] = True)
             examples == RecordsOf(data, ExamplesTable)
             resp == LastResp(reqs'[r])
         IN /\ reqs'[r].pend = <<>> /\ Len(reqs'[r].resp) = 1
            /\ resp.status = 200 /\ resp.type = "application/json"
            /\ resp.body[1].query = term
            /\ resp.body[1].results =
                 SelectSeq(pages, LAMBDA p : \/ ContainsIgnoringCase(p["title"], term)
                                             \/ ContainsIgnoringCase(p["content"], term))
                 \o SelectSeq(examples, LAMBDA e : \/ ContainsIgnoringCase(e["title"], term)
                                                   \/ ContainsIgnoringCase(e["description"], term))
            /\ data' = data]_vars

\* the search for SERVER, given after another parameter, was answered with
\* the one example that has the word in its title and description, and a
\* search without q with every example
C20_Witness ==
  \E r \in ReqIds :
    /\ Answered(reqs[r]) /\ LastEvent(reqs[r]).h = "search"
    /\ reqs[r].rawUrl = SearchPath \o <<"?", "x", "=", "basic", "&", "q", "=", "SERVER">>
    /\ LastResp(reqs[r]).body[1].query = <<"SERVER">>
    /\ Len(LastResp(reqs[r]).body[1].results) = 1
    /\ LastResp(reqs[r]).body[1].results[1]["title"] = <<"Basic", "Server", "Setup">>
    /\ Len(RecordsOf(data, ExamplesTable)) = Len(ExampleSeeds)
    /\ \E o \in ReqIds :
         /\ Answered(reqs[o]) /\ reqs[o].rawUrl = SearchPath
         /\ LastResp(reqs[o]).body[1].query = <<>>
         /\ Len(LastResp(reqs[o]).body[1].results) = Len(ExampleSeeds)

\* C21: with the page titled "Getting Started" seeded, a search request with
\* q=getting has that page among its results.
C21_SearchFindsSeededPage ==
  \A r \in ReqIds :
    (/\ Answered(reqs[r]) /\ LastEvent(reqs[r]).h = "search"
     /\ reqs[r].rawUrl = SearchPath \o <<"?", "q", "=", "getting">>
     /\ \E j \in 1..Len(RecordsOf(data, PagesTable)) :
          RecordsOf(data, PagesTable)[j]["title"] = <<"Getting", "Started">>) =>
      \E i \in 1..Len(LastResp(reqs[r]).body[1].results) :
        LastResp(reqs[r]).body[1].results[i]["title"] = <<"Getting", "Started">>

\* the requests for which the page handler served the page of this slug
ServedReads(slug) ==
  {r \in ReqIds :
     /\ reqs[r].st = "open" /\ Routed(reqs[r]) /\ LastEvent(reqs[r]).h = "page"
     /\ slugOf(reqs[r].rawUrl) = slug
     /\ \E i \in 1..Len(reqs[r].resp \o reqs[r].pend) :
          (reqs[r].resp \o reqs[r].pend)[i].status = 200}

\* C22: the stored views field of every page equals the number of reads the
\* page handler has served of it: 0 for a freshly seeded page, one more with
\* each served read, the other pages' counters unchanged.
C22_ViewsCountReads ==
  \A j \in 1..Len(RecordsOf(data, PagesTable)) :
    LET page == RecordsOf(data, PagesTable)[j]
    IN Get(page, "views") = Cardinality(ServedReads(page["slug"]))

\* the call c of initialize() has returned
Initialized(c) == svc[c].kind = "initialize" /\ stepOf(svc[c].kind, svc[c].at) = "done"

\* C23: a call of initialize() on the constructed service always returns,
\* with the store seeded and the routes registered, and no step of it starts
\* the listener: without a call of start() the service never listens.
C23_InitializeReturns ==
  /\ \A c \in SvcCalls :
       (svc[c].kind = "initialize") ~> (Initialized(c) /\ Seeded(data) /\ AllRoutes(routes))
  /\ [](svc[1].kind = "none" => ~listening)
  /\ [][\A c \in SvcCalls :
          (svc[c].kind = "initialize" /\ svc'[c] # svc[c]) => listening' = listening]_vars

\* initialize() has returned on a service on which start() was never called
C23_Witness ==
  /\ Initialized(2) /\ svc[1].kind = "none" /\ ~listening
  /\ Seeded(data) /\ AllRoutes(routes)
  /\ Len(RecordsOf(data, PagesTable)) = Len(PageSeeds)

\* the calls of initialize() or start() that have run the step at their
\* at-th await (1 setupDatabase, 2 setupRoutes)
CallsPast(at) == {c \in SvcCalls : svc[c].kind # "none" /\ svc[c].at > at}

\* the identifiers of the records of a table that have this value of a field
IdsWith(tableName, field, value) ==
  {RecordsOf(data, tableName)[j]["id"] :
     j \in {j \in 1..Len(RecordsOf(data, tableName)) :
              RecordsOf(data, tableName)[j][field] = value}}

\* C24: initialization is not guarded: every run of it seeds again, so that
\* after the second run each table holds two records, with different ids,
\* for each seeded slug or title, while the route table holds the same paths
\* as after the first run.
C24_SecondInitializeSeedsAgain ==
  /\ [](/\ \A i \in 1..Len(PageSeeds) :
            Cardinality(IdsWith(PagesTable, "slug", PageSeeds[i]["slug"]))
              = Cardinality(CallsPast(1))
        /\ \A i \in 1..Len(ExampleSeeds) :
            Cardinality(IdsWith(ExamplesTable, "title", ExampleSeeds[i]["title"]))
              = Cardinality(CallsPast(1))
        /\ Len(RecordsOf(data, PagesTable)) = Len(PageSeeds) * Cardinality(CallsPast(1))
        /\ Len(RecordsOf(data, ExamplesTable)) = Len(ExampleSeeds) * Cardinality(CallsPast(1))
        /\ CallsPast(2) # {} =>
             /\ DOMAIN routes = {"GET"}
             /\ DOMAIN routes["GET"] = {ServiceRoutes[i][1] : i \in 1..Len(ServiceRoutes)})
  /\ [][(CallsPast(2) # {} /\ CallsPast(2)' # CallsPast(2)) => routes' = routes]_vars

\* both runs are through: two records for each seed, the five paths
C24_Witness ==
  /\ CallsPast(2) = SvcCalls
  /\ Len(RecordsOf(data, PagesTable)) = 2 * Len(PageSeeds)
  /\ Cardinality(IdsWith(PagesTable, "slug", <<"getting-started">>)) = 2
  /\ Cardinality(DOMAIN routes["GET"]) = Len(ServiceRoutes)

\* the field f the store holds for a record
StoredF(id) == Get(findById(data, "A", id), "f")

\* both handlers read the same state of the same record and both have updated
Overlapped(a, b) ==
  /\ a # b /\ tasks[a].st = "done" /\ tasks[b].st = "done"
  /\ tasks[a].id = tasks[b].id /\ tasks[a].seen = tasks[b].seen

\* no handler has updated the record after a and b did
LastTwo(a, b) ==
  \A o \in TaskIds \ {a, b} :
    (tasks[o].st = "done" /\ tasks[o].id = tasks[a].id) =>
      (tasks[o].turn < tasks[a].turn \/ tasks[o].turn < tasks[b].turn)

\* C25: when two handlers have read the same record before either updated
\* it, both updates return true, and the store holds the value of the update
\* that ran last, computed from that handler's own read: the other write is
\* lost.
C25_LastWriterWins ==
  \A a \in TaskIds, b \in TaskIds :
    (Overlapped(a, b) /\ tasks[a].turn < tasks[b].turn) =>
      /\ tasks[a].ok /\ tasks[b].ok
      /\ tasks[b].value = Get(tasks[b].seen, "f") + b
      /\ LastTwo(a, b) =>
           /\ StoredF(tasks[a].id) = tasks[b].value
           /\ StoredF(tasks[a].id) # tasks[a].value

\* handlers 1 and 2 read f = 1 of the same record; 2 updated first, then 1:
\* the store holds 2, the 3 that handler 2 wrote is gone
C25_Witness ==
  /\ Overlapped(1, 2) /\ tasks[3].st = "idle"
  /\ Get(tasks[1].seen, "f") = 1
  /\ tasks[2].turn = 1 /\ tasks[1].turn = 2
  /\ tasks[2].value = 3 /\ StoredF(tasks[1].id) = 2

\* the positions of a request's trace at which it was dispatched (a handler
\* invoked or the 404 written), and those at which stage number i was started
Dispatches(req) == {p \in 1..Len(req.trace) : req.trace[p].ev \in {"handler", "notfound"}}
StageRuns(req, i) == {p \in 1..Len(req.trace) : req.trace[p].ev = "stage" /\ req.trace[p].n = i}

\* C26: whatever continuation calls the stages make, a request is dispatched
\* at most once and each stage runs at most once for it.
C26_DispatchAtMostOnce ==
  \A r \in ReqIds :
    /\ Cardinality(Dispatches(reqs[r])) <= 1
    /\ \A i \in 1..MaxStages : Cardinality(StageRuns(reqs[r], i)) <= 1

\* the numbers of the stages started for req before position p of its trace,
\* in the order in which they were started
StagesBefore(req, p) ==
  LET started == SelectSeq(SubSeq(req.trace, 1, p - 1), LAMBDA e : e.ev = "stage")
  IN [k \in 1..Len(started) |-> started[k].n]

\* C27: each request has its own position in the chain.  The position of a
\* request is the number of stages started for it; when it is dispatched,
\* the stages registered then have each been started for it once, in the
\* order of registration; a step of one request changes nothing of another,
\* and a stage that has still to invoke its continuation for a request can
\* do so whatever state the other requests are in.
C27_PositionPerRequest ==
  /\ [](\A r \in ReqIds :
          /\ reqs[r].middlewareIndex
               = Cardinality({p \in 1..Len(reqs[r].trace) : reqs[r].trace[p].ev = "stage"})
          /\ \A p \in Dispatches(reqs[r]) :
               StagesBefore(reqs[r], p) = [k \in 1..reqs[r].trace[p].len |-> k]
          /\ \A i \in 1..Len(middleware) :
               (/\ reqs[r].st = "open" /\ StageRuns(reqs[r], i) # {}
                /\ reqs[r].calls[i] < invocations(middleware[i], reqs[r]))
                 => ENABLED InvokeNext(r, i))
  /\ [][\A r \in ReqIds :
          reqs'[r] # reqs[r] => \A o \in ReqIds \ {r} : reqs'[o] = reqs[o]]_vars

\* the two requests stand at different positions of the same chain: the one
\* with a query stalled in the guard stage, the other still in the first
\* stage
C27_Witness ==
  /\ middleware = <<"pass", "guard">>
  /\ reqs[1].middlewareIndex = 2 /\ StalledIn(reqs[1], 2) /\ Dispatches(reqs[1]) = {}
  /\ reqs[2].st = "open" /\ reqs[2].middlewareIndex = 1 /\ reqs[2].calls[1] = 0

\* C28: every record of a table carries the key it is stored under as its
\* id, so that findById(T, k).id = k and find(T, {id: k}) returns exactly the
\* record that findById(T, k) returns.
C28_IdIsKey ==
  \A t \in DOMAIN data : \A j \in 1..Len(data[t]) :
    LET k == data[t][j][1]
    IN /\ findById(data, t, k)["id"] = k
       /\ find(data, t, TRUE, [f \in {"id"} |-> k]) = <<findById(data, t, k)>>

RECURSIVE Expand(_, _, _)
\* text with every token mark replaced by the tokens of value
Expand(text, mark, value) ==
  IF text = <<>> THEN <<>>
  ELSE (IF Head(text) = mark THEN value ELSE <<Head(text)>>)
         \o Expand(Tail(text), mark, value)

\* C29: a string substituted for {{a}} comes out as it is: the output is what
\* render gives with a plain word in place of the string, with the string put
\* back for the word, so that the blocks kept and the repetitions of the loop
\* bodies are those of the template and the other entries alone.
C29_ValuesAreText ==
  (pc = "done" /\ "a" \in DOMAIN ctx) =>
    result.out = Expand(render(template, [ctx EXCEPT !["a"] = Str(<<Txt("s")>>)]).out,
                        Txt("s"), ctx["a"].v)

====
